---------------------------- MODULE Spec2Model ----------------------------
(***************************************************************************)
(* Model of scripts/match_predict.py: the package/carrier match scorer.    *)
(*                                                                         *)
(* Numbers.  Python floats are modelled as exact rationals [num, den]      *)
(* with den > 0.  Distances are integers in units of 0.1 m (1/10000 km),   *)
(* money in units of 1/1000 currency unit, so that round(x, 2) has         *)
(* something to round.                                                     *)
(*                                                                         *)
(* Exceptions.  A Python call that may raise is modelled by an operator    *)
(* returning OK(value) or Err(the exception's class).                      *)
(***************************************************************************)
EXTENDS Integers, Sequences, FiniteSets, TLC

VARIABLES
    pc,        \* position of the process: "start", then "done"
    args,      \* the arguments of the call under analysis
    ret,       \* what the call returned (or what it raised)
    files,     \* the file system: the model artifact and the training data
    clfInput   \* the feature rows handed to the external classifier

vars == <<pc, args, ret, files, clfInput>>

\* ------------------------------------------------------------------ results

OK(v) == [ok |-> TRUE, val |-> v]

Err(m) == [ok |-> FALSE, err |-> m]

\* Sequencing: when x raised, what follows is skipped and x propagates.
Then(x, F(_)) == IF x.ok THEN F(x.val) ELSE x

\* ---------------------------------------------------------------- rationals

Abs(x) == IF x < 0 THEN -x ELSE x

RECURSIVE GCD(_, _)
GCD(a, b) == IF b = 0 THEN a ELSE GCD(b, a % b)

\* The rational n / d (d # 0) in lowest terms with a positive denominator.
Frac(n, d) ==
    LET g == GCD(Abs(n), Abs(d))
        sgn == IF d < 0 THEN -1 ELSE 1
    IN [num |-> sgn * (n \div g), den |-> sgn * (d \div g)]

FInt(n) == [num |-> n, den |-> 1]

FEq(a, b) == Frac(a.num, a.den) = Frac(b.num, b.den)

\* a < b, compared by integer parts and then (Euclid) by the remainders, so
\* that no product leaves the machine integers.
RECURSIVE FLt(_, _)
FLt(a, b) ==
    LET qa == a.num \div a.den
        qb == b.num \div b.den
        ra == a.num % a.den
        rb == b.num % b.den
    IN IF qa # qb THEN qa < qb
       ELSE IF rb = 0 THEN FALSE
       ELSE IF ra = 0 THEN TRUE
       ELSE FLt([num |-> b.den, den |-> rb], [num |-> a.den, den |-> ra])

FLe(a, b) == ~FLt(b, a)

FSub(a, b) == Frac(a.num * b.den - b.num * a.den, a.den * b.den)

FAbs(a) == [num |-> Abs(a.num), den |-> a.den]

FMax(a, b) == IF FLt(a, b) THEN b ELSE a

FMin(a, b) == IF FLt(b, a) THEN b ELSE a

\* Python's a / b on numbers: ZeroDivisionError when b = 0.
PyDiv(a, b) == IF b = 0 THEN Err("ZeroDivisionError") ELSE OK(Frac(a, b))

\* ------------------------------------------------------------- time strings
\* A time string is a sequence of one-character strings.

Digits == <<"0", "1", "2", "3", "4", "5", "6", "7", "8", "9">>

DigitValue(c) == (CHOOSE i \in 1..10 : Digits[i] = c) - 1

IsDigit(c) == \E i \in 1..10 : Digits[i] = c

\* str.split(':'): the pieces between the colons.
RECURSIVE Split(_)
Split(s) ==
    IF \A i \in 1..Len(s) : s[i] # ":"
    THEN <<s>>
    ELSE LET k == CHOOSE i \in 1..Len(s) :
                      s[i] = ":" /\ \A j \in 1..(i - 1) : s[j] # ":"
         IN <<SubSeq(s, 1, k - 1)>> \o Split(SubSeq(s, k + 1, Len(s)))

RECURSIVE DigitsToInt(_)
DigitsToInt(s) ==
    IF s = <<>> THEN 0
    ELSE 10 * DigitsToInt(SubSeq(s, 1, Len(s) - 1)) + DigitValue(s[Len(s)])

\* int(text) on a text of digits and letters: ValueError unless it is a
\* non-empty run of decimal digits.
PyInt(s) ==
    IF s # <<>> /\ \A i \in 1..Len(s) : IsDigit(s[i])
    THEN OK(DigitsToInt(s))
    ELSE Err("ValueError")

\* hours, minutes = map(int, time_str.split(':')); return hours * 60 + minutes
time_to_minutes(time_str) ==
    LET parts == Split(time_str)
    IN IF Len(parts) # 2 THEN Err("ValueError")
       ELSE Then(PyInt(parts[1]), LAMBDA hours :
            Then(PyInt(parts[2]), LAMBDA minutes :
            OK(hours * 60 + minutes)))

Max2(a, b) == IF a < b THEN b ELSE a

Min2(a, b) == IF b < a THEN b ELSE a

\* lines 25-36 on the four minute counts; duration is window 2's
OverlapRatio(w1_start, w1_end, w2_start, w2_end, duration) ==
    LET overlap_start == Max2(w1_start, w2_start)
        overlap_end == Min2(w1_end, w2_end)
    IN IF overlap_end <= overlap_start THEN OK(FInt(0))
       ELSE PyDiv(overlap_end - overlap_start, duration)

OverlapRatioEager(w1_start, w1_end, w2_start, w2_end) ==
    LET overlap_start == Max2(w1_start, w2_start)
        overlap_end == Min2(w1_end, w2_end)
    IN Then(PyDiv(overlap_end - overlap_start, w2_end - w2_start), LAMBDA ratio :
       IF overlap_end <= overlap_start THEN OK(FInt(0)) ELSE OK(ratio))

calculate_window_overlap_byA(window1_start, window1_end, window2_start, window2_end) ==
    Then(time_to_minutes(window1_start), LAMBDA w1_start :
    Then(time_to_minutes(window1_end), LAMBDA w1_end :
    Then(time_to_minutes(window2_start), LAMBDA w2_start :
    Then(time_to_minutes(window2_end), LAMBDA w2_end :
    OverlapRatio(w1_start, w1_end, w2_start, w2_end, w1_end - w1_start)))))

calculate_window_overlap_eager(window1_start, window1_end, window2_start, window2_end) ==
    Then(time_to_minutes(window1_start), LAMBDA w1_start :
    Then(time_to_minutes(window1_end), LAMBDA w1_end :
    Then(time_to_minutes(window2_start), LAMBDA w2_start :
    Then(time_to_minutes(window2_end), LAMBDA w2_end :
    OverlapRatioEager(w1_start, w1_end, w2_start, w2_end)))))

\* the four conversions, then lines 25-36
calculate_window_overlap(window1_start, window1_end, window2_start, window2_end) ==
    Then(time_to_minutes(window1_start), LAMBDA w1_start :
    Then(time_to_minutes(window1_end), LAMBDA w1_end :
    Then(time_to_minutes(window2_start), LAMBDA w2_start :
    Then(time_to_minutes(window2_end), LAMBDA w2_end :
    OverlapRatio(w1_start, w1_end, w2_start, w2_end, w2_end - w2_start)))))

\* carrier_schedule is a dict, the two package windows are two-element lists.
calculate_time_compatibility_max(carrier_schedule, pickup_window, delivery_window) ==
    IF ~({"startTime", "endTime"} \subseteq DOMAIN carrier_schedule)
    THEN Err("KeyError")
    ELSE IF Len(pickup_window) # 2 \/ Len(delivery_window) # 2 THEN Err("ValueError")
    ELSE Then(calculate_window_overlap(carrier_schedule.startTime,
                  carrier_schedule.endTime, pickup_window[1], pickup_window[2]),
              LAMBDA pickup_compatibility :
         Then(calculate_window_overlap(carrier_schedule.startTime,
                  carrier_schedule.endTime, delivery_window[1], delivery_window[2]),
              LAMBDA delivery_compatibility :
         OK(FMax(pickup_compatibility, delivery_compatibility))))

calculate_time_compatibility(carrier_schedule, pickup_window, delivery_window) ==
    IF ~({"startTime", "endTime"} \subseteq DOMAIN carrier_schedule)
    THEN Err("KeyError")
    ELSE IF Len(pickup_window) # 2 \/ Len(delivery_window) # 2 THEN Err("ValueError")
    ELSE Then(calculate_window_overlap(carrier_schedule.startTime,
                  carrier_schedule.endTime, pickup_window[1], pickup_window[2]),
              LAMBDA pickup_compatibility :
         Then(calculate_window_overlap(carrier_schedule.startTime,
                  carrier_schedule.endTime, delivery_window[1], delivery_window[2]),
              LAMBDA delivery_compatibility :
         OK(FMin(pickup_compatibility, delivery_compatibility))))

\* --------------------------------------------------------- the window inputs

\* Clock times run from FirstHour:00 in half-hour steps.
FirstHour == 9

MaxHalfHours == 3

ClockMinutes == {FirstHour * 60 + 30 * k : k \in 0..MaxHalfHours}

\* The "HH:MM" text of a minute count.
FormatTime(t) ==
    LET h == t \div 60
        m == t % 60
    IN <<Digits[(h \div 10) + 1], Digits[(h % 10) + 1], ":",
         Digits[(m \div 10) + 1], Digits[(m % 10) + 1]>>

Times == {FormatTime(t) : t \in ClockMinutes}

\* The minute count whose text is s (the inverse of FormatTime on the inputs).
MinutesOf(s) == CHOOSE t \in ClockMinutes : FormatTime(t) = s

NoRet == [ok |-> FALSE, err |-> "not called"]

NoFiles == [model |-> "absent", training |-> "absent"]

NoRows == <<>>

InitWindow ==
    /\ pc = "start"
    /\ args \in [schedule : [startTime : Times, endTime : Times],
                 pickupWindow : Times \X Times,
                 deliveryWindow : Times \X Times]
    /\ ret = NoRet
    /\ files = NoFiles
    /\ clfInput = NoRows

\* calculate_window_overlap(schedule, pickup window)
CallWindowOverlap ==
    /\ pc = "start"
    /\ pc' = "overlap"
    /\ ret' = calculate_window_overlap(args.schedule.startTime, args.schedule.endTime,
                                       args.pickupWindow[1], args.pickupWindow[2])
    /\ UNCHANGED <<args, files, clfInput>>

CallTimeCompatibility ==
    /\ pc = "start"
    /\ pc' = "timecompat"
    /\ ret' = calculate_time_compatibility(args.schedule, args.pickupWindow,
                                           args.deliveryWindow)
    /\ UNCHANGED <<args, files, clfInput>>

NextWindow == CallWindowOverlap \/ CallTimeCompatibility

SpecWindow == InitWindow /\ [][NextWindow]_vars

\* Window A = the carrier schedule, window B = the pickup window, in minutes.
StartA == MinutesOf(args.schedule.startTime)

EndA == MinutesOf(args.schedule.endTime)

StartB == MinutesOf(args.pickupWindow[1])

EndB == MinutesOf(args.pickupWindow[2])

StartD == MinutesOf(args.deliveryWindow[1])

EndD == MinutesOf(args.deliveryWindow[2])

OverlapStart == Max2(StartA, StartB)

OverlapEnd == Min2(EndA, EndB)

\* C3: calculate_window_overlap(A, B) is 0 whenever oe <= os and otherwise
\* exactly (oe - os) / (endB - startB): normalised by window B, not by A.
C3_OverlapFormula ==
    pc = "overlap" =>
        /\ ret.ok
        /\ OverlapEnd <= OverlapStart => ret.val.num = 0
        /\ OverlapEnd > OverlapStart =>
               /\ EndB - StartB # 0
               /\ ret.val.num * (EndB - StartB) = (OverlapEnd - OverlapStart) * ret.val.den

\* C3 witness: a partial overlap where A and B have different durations.
C3_Witness ==
    /\ pc = "overlap"
    /\ OverlapEnd > OverlapStart
    /\ EndA - StartA # EndB - StartB
    /\ OverlapEnd - OverlapStart < EndB - StartB
    /\ ret.ok /\ ret.val.num > 0

InsideSchedule(s, e) == s < e /\ StartA <= s /\ e <= EndA

\* C9: for well-formed times (also end = start and end < start) the overlap
\* is in [0, 1] and the division is never by zero or by a negative number;
\* the time compatibility is in [0, 1] and is 1 exactly when both package
\* windows have positive duration and lie inside the carrier schedule.
C9_OverlapRange ==
    /\ pc = "overlap" =>
           /\ ret.ok
           /\ FLe(FInt(0), ret.val) /\ FLe(ret.val, FInt(1))
           /\ OverlapEnd > OverlapStart =>
                  EndB - StartB >= OverlapEnd - OverlapStart /\ EndB - StartB > 0
    /\ pc = "timecompat" =>
           /\ ret.ok
           /\ FLe(FInt(0), ret.val) /\ FLe(ret.val, FInt(1))
           /\ FEq(ret.val, FInt(1)) <=>
                  (InsideSchedule(StartB, EndB) /\ InsideSchedule(StartD, EndD))

\* C9 witness: a reversed pickup window and a zero-duration delivery window.
C9_Witness ==
    /\ pc = "timecompat"
    /\ EndB < StartB
    /\ EndD = StartD
    /\ StartA < EndA
    /\ ret.ok /\ ret.val.num = 0


\* ------------------------------------------------------------ route deviation
\* A coordinate is a pair <<lat, lon>> of grid indices.  geopy's geodesic is an
\* external library: it is modelled by a metric on the grid (0 between equal
\* points, symmetric), one latitude step being 2.5 km and one longitude step
\* 1.2347 km, in units of 1/10000 km.

LatStep == 25000

LonStep == 12347

geodesic_km(p, q) == LatStep * Abs(p[1] - q[1]) + LonStep * Abs(p[2] - q[2])

\* min(route, key = distance to target): the first point at minimal distance.
NearestTo(route, target) ==
    LET i == CHOOSE k \in 1..Len(route) :
                 /\ \A j \in 1..Len(route) :
                        geodesic_km(route[k], target) <= geodesic_km(route[j], target)
                 /\ \A j \in 1..(k - 1) :
                        geodesic_km(route[j], target) > geodesic_km(route[k], target)
    IN route[i]

\* x / 30 * 60 on an integer count of distance units.
TimeOf(distance) == Frac(distance * 60, 30)

calculate_route_deviation_samepoint(route_coords, pickup_coords, delivery_coords) ==
    IF Len(route_coords) = 0 THEN Err("ValueError")
    ELSE LET nearest_to_pickup == NearestTo(route_coords, pickup_coords)
             nearest_to_delivery == nearest_to_pickup
             pickup_deviation == geodesic_km(nearest_to_pickup, pickup_coords)
             delivery_deviation == geodesic_km(nearest_to_delivery, delivery_coords)
         IN OK([distance |-> pickup_deviation + delivery_deviation,
                time |-> TimeOf(pickup_deviation + delivery_deviation)])

calculate_route_deviation(route_coords, pickup_coords, delivery_coords) ==
    IF Len(route_coords) = 0 THEN Err("ValueError")
    ELSE LET nearest_to_pickup == NearestTo(route_coords, pickup_coords)
             nearest_to_delivery == NearestTo(route_coords, delivery_coords)
             pickup_deviation == geodesic_km(nearest_to_pickup, pickup_coords)
             delivery_deviation == geodesic_km(nearest_to_delivery, delivery_coords)
         IN OK([distance |-> pickup_deviation + delivery_deviation,
                time |-> TimeOf(pickup_deviation + delivery_deviation)])

\* ---------------------------------------------------------- size compatibility

CapacityKeys == {"length", "width", "height", "weightLimit"}

DimensionKeys == {"length", "width", "height", "weight"}

EfficiencyOfMin(volume_ratio, weight_ratio) ==
    LET efficiency_score ==
            FSub(FInt(1), FAbs(FSub(Frac(3, 10), FMin(volume_ratio, weight_ratio))))
    IN FMax(Frac(1, 10), efficiency_score)

\* 1 - abs(0.3 - max(volume_ratio, weight_ratio)), floored at 0.1
EfficiencyOf(volume_ratio, weight_ratio) ==
    LET efficiency_score ==
            FSub(FInt(1), FAbs(FSub(Frac(3, 10), FMax(volume_ratio, weight_ratio))))
    IN FMax(Frac(1, 10), efficiency_score)

evaluate_size_compatibility_noheight(vehicle_capacity, package_dimensions) ==
    IF ~(CapacityKeys \subseteq DOMAIN vehicle_capacity) THEN Err("KeyError")
    ELSE IF ~(DimensionKeys \subseteq DOMAIN package_dimensions) THEN Err("KeyError")
    ELSE IF ~(/\ package_dimensions.length <= vehicle_capacity.length
              /\ package_dimensions.width <= vehicle_capacity.width
              /\ package_dimensions.weight <= vehicle_capacity.weightLimit)
    THEN OK(FInt(0))
    ELSE Then(PyDiv(package_dimensions.length * package_dimensions.width
                        * package_dimensions.height,
                    vehicle_capacity.length * vehicle_capacity.width
                        * vehicle_capacity.height),
              LAMBDA volume_ratio :
         Then(PyDiv(package_dimensions.weight, vehicle_capacity.weightLimit),
              LAMBDA weight_ratio :
         OK(EfficiencyOf(volume_ratio, weight_ratio))))

evaluate_size_compatibility(vehicle_capacity, package_dimensions) ==
    IF ~(CapacityKeys \subseteq DOMAIN vehicle_capacity) THEN Err("KeyError")
    ELSE IF ~(DimensionKeys \subseteq DOMAIN package_dimensions) THEN Err("KeyError")
    ELSE IF ~(/\ package_dimensions.length <= vehicle_capacity.length
              /\ package_dimensions.width <= vehicle_capacity.width
              /\ package_dimensions.height <= vehicle_capacity.height
              /\ package_dimensions.weight <= vehicle_capacity.weightLimit)
    THEN OK(FInt(0))
    ELSE Then(PyDiv(package_dimensions.length * package_dimensions.width
                        * package_dimensions.height,
                    vehicle_capacity.length * vehicle_capacity.width
                        * vehicle_capacity.height),
              LAMBDA volume_ratio :
         Then(PyDiv(package_dimensions.weight, vehicle_capacity.weightLimit),
              LAMBDA weight_ratio :
         OK(EfficiencyOf(volume_ratio, weight_ratio))))

\* ---------------------------------------------------------------- compensation
\* Money and distances are fixed-point numbers with four decimals.

Scaled(x) == x * 10000

base_rate == 50

per_km == 10

per_kg == 5

high_premium == 100

medium_premium == 50

\* round(x, 2) on a four-decimal fixed-point x (ties to the even cent).
Round2(x) ==
    LET q == x \div 100
        r == x % 100
    IN 100 * (IF r < 50 THEN q
              ELSE IF r > 50 THEN q + 1
              ELSE IF q % 2 = 0 THEN q ELSE q + 1)

\* package.get('urgency') == 'high' / 'medium'
urgency_premium_swapped(package) ==
    IF "urgency" \in DOMAIN package /\ package.urgency = "high" THEN medium_premium
    ELSE IF "urgency" \in DOMAIN package /\ package.urgency = "medium" THEN high_premium
    ELSE 0

urgency_premium(package) ==
    IF "urgency" \in DOMAIN package /\ package.urgency = "high" THEN high_premium
    ELSE IF "urgency" \in DOMAIN package /\ package.urgency = "medium" THEN medium_premium
    ELSE 0

calculate_compensation(package, carrier) ==
    IF "routeCoordinates" \notin DOMAIN carrier THEN Err("KeyError")
    ELSE IF ~({"pickupCoordinates", "deliveryCoordinates"} \subseteq DOMAIN package)
    THEN Err("KeyError")
    ELSE Then(calculate_route_deviation(carrier.routeCoordinates,
                  package.pickupCoordinates, package.deliveryCoordinates),
              LAMBDA deviation :
         IF "dimensions" \notin DOMAIN package THEN Err("KeyError")
         ELSE IF "weight" \notin DOMAIN package.dimensions THEN Err("KeyError")
         ELSE LET deviation_compensation == deviation.distance * per_km
                  weight_factor == package.dimensions.weight * per_kg
                  total_compensation ==
                      Scaled(base_rate) + deviation_compensation + weight_factor
                          + Scaled(urgency_premium(package))
              IN OK(Round2(total_compensation)))

\* -------------------------------------------------------------- the features

\* carrier.get(key, 0)
GetOr0(carrier, key) == IF key \in DOMAIN carrier THEN carrier[key] ELSE 0

\* len(carrier.get('completedDeliveries', []))
carrier_experience(carrier) ==
    IF "completedDeliveries" \in DOMAIN carrier THEN Len(carrier.completedDeliveries)
    ELSE 0

FeatureRow_swapped(route_deviation, time_flexibility, size_compatibility, carrier) ==
    <<route_deviation.distance, route_deviation.time, size_compatibility,
      time_flexibility, GetOr0(carrier, "rating"), GetOr0(carrier, "onTimeRate"),
      carrier_experience(carrier)>>

\* the returned list, in its fixed order
FeatureRow(route_deviation, time_flexibility, size_compatibility, carrier) ==
    <<route_deviation.distance, route_deviation.time, time_flexibility,
      size_compatibility, GetOr0(carrier, "rating"), GetOr0(carrier, "onTimeRate"),
      carrier_experience(carrier)>>

extract_features(package, carrier) ==
    IF "routeCoordinates" \notin DOMAIN carrier THEN Err("KeyError")
    ELSE IF ~({"pickupCoordinates", "deliveryCoordinates"} \subseteq DOMAIN package)
    THEN Err("KeyError")
    ELSE Then(calculate_route_deviation(carrier.routeCoordinates,
                  package.pickupCoordinates, package.deliveryCoordinates),
              LAMBDA route_deviation :
    IF "schedule" \notin DOMAIN carrier THEN Err("KeyError")
    ELSE IF ~({"pickupWindow", "deliveryWindow"} \subseteq DOMAIN package)
    THEN Err("KeyError")
    ELSE Then(calculate_time_compatibility(carrier.schedule, package.pickupWindow,
                                           package.deliveryWindow),
              LAMBDA time_flexibility :
    IF "vehicleCapacity" \notin DOMAIN carrier THEN Err("KeyError")
    ELSE IF "dimensions" \notin DOMAIN package THEN Err("KeyError")
    ELSE Then(evaluate_size_compatibility(carrier.vehicleCapacity, package.dimensions),
              LAMBDA size_compatibility :
    OK(FeatureRow(route_deviation, time_flexibility, size_compatibility, carrier)))))

\* ----------------------------------------------------------- the size inputs

MaxDim == 2

\* Lengths may be zero or negative (nothing in the code rejects them); widths
\* and heights are positive.  Weights are in units of 1/10000 kg.
LengthValues == (-MaxDim)..MaxDim

SideValues == 1..MaxDim

PackageWeights == {-70000, 0, 30000, 100000, 110000}

WeightLimits == {0, 100000}

InitSize ==
    /\ pc = "start"
    /\ args \in [vehicleCapacity : [length : LengthValues, width : SideValues,
                                    height : SideValues, weightLimit : WeightLimits],
                 dimensions : [length : LengthValues, width : SideValues,
                               height : SideValues, weight : PackageWeights]]
    /\ ret = NoRet
    /\ files = NoFiles
    /\ clfInput = NoRows

CallSizeCompatibility ==
    /\ pc = "start"
    /\ pc' = "size"
    /\ ret' = evaluate_size_compatibility(args.vehicleCapacity, args.dimensions)
    /\ UNCHANGED <<args, files, clfInput>>

NextSize == CallSizeCompatibility

SpecSize == InitSize /\ [][NextSize]_vars

Fits ==
    /\ args.dimensions.length <= args.vehicleCapacity.length
    /\ args.dimensions.width <= args.vehicleCapacity.width
    /\ args.dimensions.height <= args.vehicleCapacity.height
    /\ args.dimensions.weight <= args.vehicleCapacity.weightLimit

VehicleVolume ==
    args.vehicleCapacity.length * args.vehicleCapacity.width * args.vehicleCapacity.height

PackageVolume ==
    args.dimensions.length * args.dimensions.width * args.dimensions.height

\* max(volumeRatio, weightRatio), defined when both denominators are not 0
BindingRatio ==
    FMax(Frac(PackageVolume, VehicleVolume),
         Frac(args.dimensions.weight, args.vehicleCapacity.weightLimit))

\* max(0.1, 1 - |0.3 - r|)
ScoreOf(r) == FMax(Frac(1, 10), FSub(FInt(1), FAbs(FSub(Frac(3, 10), r))))

RatiosDefined == VehicleVolume # 0 /\ args.vehicleCapacity.weightLimit # 0

AllPositive ==
    /\ \A k \in CapacityKeys : args.vehicleCapacity[k] > 0
    /\ \A k \in DimensionKeys : args.dimensions[k] > 0

\* C4 as stated: for ALL capacities and dimensions the call returns 0 when an
\* axis exceeds and max(0.1, 1 - |0.3 - max(ratios)|) when the package fits.
C4_AsStated ==
    pc = "size" =>
        /\ ret.ok
        /\ ~Fits => ret.val.num = 0
        /\ Fits => FEq(ret.val, ScoreOf(BindingRatio)) /\ FLe(Frac(1, 10), ret.val)

\* C4 amended: the call returns exactly 0 whenever an axis exceeds; when the
\* package fits and the vehicle's volume and weightLimit are both non-zero it
\* returns max(0.1, 1 - |0.3 - max(ratios)|), never below 0.1; when the
\* package fits and the vehicle's volume or weightLimit is 0 the call raises
\* a division by zero and returns no score.
C4_SizeScore ==
    pc = "size" =>
        /\ ~Fits => ret.ok /\ ret.val.num = 0
        /\ (Fits /\ RatiosDefined) =>
               /\ ret.ok
               /\ FEq(ret.val, ScoreOf(BindingRatio))
               /\ FLe(Frac(1, 10), ret.val)
        /\ (Fits /\ ~RatiosDefined) => ~ret.ok

\* C4 witness: a fitting package whose efficiency score is below 0.1, so that
\* the floor is what is returned.
C4_Witness ==
    /\ pc = "size"
    /\ Fits
    /\ RatiosDefined
    /\ FLt(FSub(FInt(1), FAbs(FSub(Frac(3, 10), BindingRatio))), Frac(1, 10))
    /\ ret.ok /\ FEq(ret.val, Frac(1, 10))

\* C4, the other cases: only the height exceeds and the score is 0; the
\* package fits a vehicle of zero weightLimit and the call raises.
C4_OnlyHeightExceeds ==
    /\ pc = "size"
    /\ args.dimensions.length <= args.vehicleCapacity.length
    /\ args.dimensions.width <= args.vehicleCapacity.width
    /\ args.dimensions.height > args.vehicleCapacity.height
    /\ args.dimensions.weight <= args.vehicleCapacity.weightLimit
    /\ ret.ok /\ ret.val.num = 0

C4_ZeroCapacityRaises ==
    /\ pc = "size"
    /\ Fits
    /\ VehicleVolume # 0
    /\ args.vehicleCapacity.weightLimit = 0
    /\ ret = Err("ZeroDivisionError")

\* C10: for positive capacities and dimensions the score is 0 (no fit) or in
\* [0.3, 1]; the floor never changes it; it is 1 exactly when the binding
\* ratio is 0.3.
C10_PositiveRange ==
    (pc = "size" /\ AllPositive) =>
        /\ ret.ok
        /\ ~Fits => ret.val.num = 0
        /\ Fits =>
               /\ FLt(FInt(0), BindingRatio) /\ FLe(BindingRatio, FInt(1))
               /\ FLe(Frac(3, 10), ret.val) /\ FLe(ret.val, FInt(1))
               /\ FEq(ret.val, FSub(FInt(1), FAbs(FSub(Frac(3, 10), BindingRatio))))
               /\ FEq(ret.val, FInt(1)) <=> FEq(BindingRatio, Frac(3, 10))
        /\ ~(FLt(FInt(0), ret.val) /\ FLt(ret.val, Frac(3, 10)))

\* C10 witness: a positive fitting package whose binding ratio is 0.3.
C10_Witness ==
    /\ pc = "size"
    /\ AllPositive
    /\ Fits
    /\ FEq(BindingRatio, Frac(3, 10))
    /\ ret.ok /\ FEq(ret.val, FInt(1))

\* ---------------------------------------------------------- the route inputs

MaxLat == 1

MaxRoute == 3

Points == (0..MaxLat) \X (0..1)

Routes(n) == UNION {[1..k -> Points] : k \in 0..n}

InitRoute ==
    /\ pc = "start"
    /\ args \in [routeCoordinates : Routes(MaxRoute),
                 pickupCoordinates : Points,
                 deliveryCoordinates : Points]
    /\ ret = NoRet
    /\ files = NoFiles
    /\ clfInput = NoRows

CallRouteDeviation ==
    /\ pc = "start"
    /\ pc' = "route"
    /\ ret' = calculate_route_deviation(args.routeCoordinates, args.pickupCoordinates,
                                        args.deliveryCoordinates)
    /\ UNCHANGED <<args, files, clfInput>>

NextRoute == CallRouteDeviation

SpecRoute == InitRoute /\ [][NextRoute]_vars

\* the least distance from a point of the (non-empty) route to target
MinDistance(route, target) ==
    LET ds == {geodesic_km(route[i], target) : i \in 1..Len(route)}
    IN CHOOSE d \in ds : \A e \in ds : d <= e

\* C5: for a non-empty route, distance = (min over the route of the distance
\* to pickup) + (min over the route of the distance to delivery), the minima
\* taken independently, and time = distance / 30 * 60 = 2 x distance; no
\* route point is closer to pickup or to delivery than the one used.
C5_RouteDeviation ==
    (pc = "route" /\ Len(args.routeCoordinates) > 0) =>
        /\ ret.ok
        /\ ret.val.distance =
               MinDistance(args.routeCoordinates, args.pickupCoordinates)
               + MinDistance(args.routeCoordinates, args.deliveryCoordinates)
        /\ FEq(ret.val.time, FInt(2 * ret.val.distance))

\* C5 witness: a 3-point route whose middle point is the pickup point and
\* whose first point is the delivery point (nearest points in reverse order),
\* the third point being off both.
C5_Witness ==
    /\ pc = "route"
    /\ Len(args.routeCoordinates) = 3
    /\ args.routeCoordinates[2] = args.pickupCoordinates
    /\ args.routeCoordinates[1] = args.deliveryCoordinates
    /\ args.routeCoordinates[1] # args.pickupCoordinates
    /\ args.routeCoordinates[3] # args.pickupCoordinates
    /\ args.routeCoordinates[3] # args.deliveryCoordinates
    /\ ret.ok /\ ret.val.distance = 0

\* A second C5 case: no route point is the pickup point, the deviation is
\* the distance to the nearest one.
C5_NearestNotFirst ==
    /\ pc = "route"
    /\ Len(args.routeCoordinates) = 2
    /\ geodesic_km(args.routeCoordinates[2], args.pickupCoordinates)
           < geodesic_km(args.routeCoordinates[1], args.pickupCoordinates)
    /\ geodesic_km(args.routeCoordinates[2], args.pickupCoordinates) > 0
    /\ ret.ok /\ ret.val.distance > 0


\* --------------------------------------------------- the compensation inputs

\* 10 kg and 1.0013 kg, in units of 1/10000 kg
CompWeights == {100000, 10013}

Urgencies == {"high", "medium", "low"}

SmallBox(w) == [length |-> 1, width |-> 1, height |-> 1, weight |-> w]

Van == [length |-> 2, width |-> 2, height |-> 2, weightLimit |-> 100000]

Truck == [length |-> 4, width |-> 4, height |-> 4, weightLimit |-> 200000]

DayShift == [startTime |-> FormatTime(FirstHour * 60),
             endTime |-> FormatTime(FirstHour * 60 + 60)]

LateShift == [startTime |-> FormatTime(FirstHour * 60 + 30),
              endTime |-> FormatTime(FirstHour * 60 + 90)]

\* A package with and without the optional urgency field.
CompPackages ==
    {[id |-> "P1", pickupCoordinates |-> p, deliveryCoordinates |-> d,
      dimensions |-> SmallBox(w), urgency |-> u] :
         p \in Points, d \in Points, w \in CompWeights, u \in Urgencies}
    \cup
    {[id |-> "P1", pickupCoordinates |-> p, deliveryCoordinates |-> d,
      dimensions |-> SmallBox(w)] :
         p \in Points, d \in Points, w \in CompWeights}

\* The first carrier has no history fields; the second has them all, and
\* another schedule and vehicle.
CompCarriers ==
    {[id |-> "C1", routeCoordinates |-> r, schedule |-> DayShift,
      vehicleCapacity |-> Van] : r \in Routes(2)}

CompCarriers2 ==
    {[id |-> "C2", routeCoordinates |-> r, schedule |-> LateShift,
      vehicleCapacity |-> Truck, rating |-> 4, onTimeRate |-> 95,
      completedDeliveries |-> <<"d1", "d2">>] : r \in Routes(1) \ {<<>>}}

InitComp ==
    /\ pc = "start"
    /\ args \in [package : CompPackages, carrier : CompCarriers,
                 carrier2 : CompCarriers2]
    /\ ret = NoRet
    /\ files = NoFiles
    /\ clfInput = NoRows

\* calculate_compensation for the same package and each of the two carriers
CallCompensation ==
    /\ pc = "start"
    /\ pc' = "comp"
    /\ ret' = [ok |-> TRUE,
               first |-> calculate_compensation(args.package, args.carrier),
               second |-> calculate_compensation(args.package, args.carrier2)]
    /\ UNCHANGED <<args, files, clfInput>>

NextComp == CallCompensation

SpecComp == InitComp /\ [][NextComp]_vars

\* The deviation distance of a carrier's non-empty route for the package.
DeviationOf(package, carrier) ==
    MinDistance(carrier.routeCoordinates, package.pickupCoordinates)
    + MinDistance(carrier.routeCoordinates, package.deliveryCoordinates)

IsUrgency(package, u) == "urgency" \in DOMAIN package /\ package.urgency = u

\* 50 + 10 x distance + 5 x weight + premium, in four-decimal fixed point
ExpectedTotal(package, distance) ==
    500000 + 10 * distance + 5 * package.dimensions.weight
    + (IF IsUrgency(package, "high") THEN 1000000
       ELSE IF IsUrgency(package, "medium") THEN 500000 ELSE 0)

\* C6: calculate_compensation = round(50 + 10 x deviation distance
\* + 5 x weight + premium, 2) with premium 100 / 50 / 0 for urgency high /
\* medium / other or absent (weight 10, high, 5 km gives 250.00); two
\* carriers whose routes give the same deviation distance get the same
\* compensation, whatever their rating, onTimeRate, completedDeliveries,
\* schedule or vehicleCapacity.
C6_Compensation ==
    (pc = "comp" /\ Len(args.carrier.routeCoordinates) > 0) =>
        /\ ret.first.ok /\ ret.second.ok
        /\ ret.first.val =
               Round2(ExpectedTotal(args.package, DeviationOf(args.package, args.carrier)))
        /\ (/\ args.package.dimensions.weight = 100000
            /\ IsUrgency(args.package, "high")
            /\ DeviationOf(args.package, args.carrier) = 50000)
               => ret.first.val = 2500000
        /\ DeviationOf(args.package, args.carrier)
               = DeviationOf(args.package, args.carrier2)
               => ret.first.val = ret.second.val

\* C6 witness: the 10 kg, high urgency, 5 km example, with a second carrier
\* of another route at the same deviation distance.
C6_Witness ==
    /\ pc = "comp"
    /\ Len(args.carrier.routeCoordinates) > 0
    /\ args.package.dimensions.weight = 100000
    /\ IsUrgency(args.package, "high")
    /\ DeviationOf(args.package, args.carrier) = 50000
    /\ DeviationOf(args.package, args.carrier2) = 50000
    /\ args.carrier.routeCoordinates # args.carrier2.routeCoordinates
    /\ ret.first.ok /\ ret.first.val = 2500000 /\ ret.second.val = 2500000

\* C6, the rounding: a total with more than two decimals is rounded.
C6_RoundingReached ==
    /\ pc = "comp"
    /\ Len(args.carrier.routeCoordinates) > 0
    /\ ret.first.ok
    /\ ret.first.val # ExpectedTotal(args.package, DeviationOf(args.package, args.carrier))


\* ------------------------------------------------------- the feature inputs

HistoryKeys == {"rating", "onTimeRate", "completedDeliveries"}

History == [rating |-> 4, onTimeRate |-> 95, completedDeliveries |-> <<"d1", "d2">>]

\* The carrier with exactly the history fields named by present.
CarrierWith(route, schedule, capacity, present) ==
    LET required == [id |-> "C1", routeCoordinates |-> route, schedule |-> schedule,
                     vehicleCapacity |-> capacity]
    IN [k \in DOMAIN required \cup present |->
           IF k \in present THEN History[k] ELSE required[k]]

FeatureWindows ==
    {<<FormatTime(FirstHour * 60), FormatTime(FirstHour * 60 + 60)>>,
     <<FormatTime(FirstHour * 60 + 30), FormatTime(FirstHour * 60 + 30)>>,
     <<FormatTime(FirstHour * 60 + 60), FormatTime(FirstHour * 60 + 90)>>}

FeaturePackages ==
    {[id |-> "P1", pickupCoordinates |-> <<0, 0>>, deliveryCoordinates |-> <<1, 1>>,
      pickupWindow |-> pw, deliveryWindow |-> dw, dimensions |-> SmallBox(w)] :
         pw \in Times \X Times, dw \in FeatureWindows, w \in {30000, 110000}}

FeatureCarriers ==
    {CarrierWith(r, sch, Van, present) :
         r \in {<<<<0, 0>>, <<1, 1>>>>, <<<<1, 0>>>>},
         sch \in {DayShift, LateShift},
         present \in SUBSET HistoryKeys}

InitFeatures ==
    /\ pc = "start"
    /\ args \in [package : FeaturePackages, carrier : FeatureCarriers]
    /\ ret = NoRet
    /\ files = NoFiles
    /\ clfInput = NoRows

CallExtractFeatures ==
    /\ pc = "start"
    /\ pc' = "features"
    /\ ret' = extract_features(args.package, args.carrier)
    /\ UNCHANGED <<args, files, clfInput>>

NextFeatures == CallExtractFeatures

SpecFeatures == InitFeatures /\ [][NextFeatures]_vars

\* (oe - os) / (endB - startB), or 0 when oe <= os, for window A = schedule
\* and window B = window, from the clock values of the texts.
ExpectedOverlap(schedule, window) ==
    LET sa == MinutesOf(schedule.startTime)
        ea == MinutesOf(schedule.endTime)
        sb == MinutesOf(window[1])
        eb == MinutesOf(window[2])
        os == Max2(sa, sb)
        oe == Min2(ea, eb)
    IN IF oe <= os THEN FInt(0) ELSE Frac(oe - os, eb - sb)

\* The size score of a positive package in a positive vehicle.
ExpectedSize(capacity, dims) ==
    IF \E k \in {"length", "width", "height"} : dims[k] > capacity[k] THEN FInt(0)
    ELSE IF dims.weight > capacity.weightLimit THEN FInt(0)
    ELSE ScoreOf(FMax(Frac(dims.length * dims.width * dims.height,
                           capacity.length * capacity.width * capacity.height),
                      Frac(dims.weight, capacity.weightLimit)))

\* C7: extract_features returns exactly 7 elements in the order [deviation
\* distance, deviation time, time compatibility, size compatibility, rating,
\* onTimeRate, number of completedDeliveries]; time compatibility is
\* min(overlap(schedule, pickupWindow), overlap(schedule, deliveryWindow))
\* with the package window as the normalising window B; an absent rating,
\* onTimeRate or completedDeliveries contributes 0 in its own position.
C7_FeatureVector ==
    (pc = "features" /\ ret.ok) =>
        /\ Len(ret.val) = 7
        /\ ret.val[1] = DeviationOf(args.package, args.carrier)
        /\ FEq(ret.val[2], FInt(2 * DeviationOf(args.package, args.carrier)))
        /\ FEq(ret.val[3],
               FMin(ExpectedOverlap(args.carrier.schedule, args.package.pickupWindow),
                    ExpectedOverlap(args.carrier.schedule, args.package.deliveryWindow)))
        /\ FEq(ret.val[4],
               ExpectedSize(args.carrier.vehicleCapacity, args.package.dimensions))
        /\ ret.val[5] = (IF "rating" \in DOMAIN args.carrier THEN 4 ELSE 0)
        /\ ret.val[6] = (IF "onTimeRate" \in DOMAIN args.carrier THEN 95 ELSE 0)
        /\ ret.val[7] = (IF "completedDeliveries" \in DOMAIN args.carrier THEN 2 ELSE 0)

\* C7 witness: only onTimeRate is present; the pickup leg is the weaker one
\* and is a proper fraction of the pickup window; the package fits.
C7_Witness ==
    /\ pc = "features"
    /\ ret.ok
    /\ DOMAIN args.carrier \cap HistoryKeys = {"onTimeRate"}
    /\ ret.val[1] > 0
    /\ FLt(FInt(0), ret.val[3]) /\ FLt(ret.val[3], FInt(1))
    /\ FLt(ret.val[3],
           ExpectedOverlap(args.carrier.schedule, args.package.deliveryWindow))
    /\ FLt(FInt(0), ret.val[4])
    /\ ret.val[5] = 0 /\ ret.val[6] = 95 /\ ret.val[7] = 0

\* Every input of SpecFeatures is complete, so extraction succeeds.
FeaturesAlwaysExtracted == pc = "features" => ret.ok


\* ----------------------------------------------------- the two entry points
\* A JSON text is either malformed or the text of a value; json.loads and
\* json.dumps are modelled by the value they read and write.

Malformed == [wellformed |-> FALSE]

JsonText(v) == [wellformed |-> TRUE, value |-> v]

json_loads(text) == IF text.wellformed THEN OK(text.value) ELSE Err("JSONDecodeError")

\* The model artifact on disk: absent, not a pickle, or a fitted pipeline with
\* the sorted class labels it was fitted on.
AbsentModel == [state |-> "absent"]

CorruptModel == [state |-> "corrupt"]

FittedModel(classes) == [state |-> "fitted", classes |-> classes]

joblib_load(file) ==
    IF file.state = "fitted" THEN OK(file)
    ELSE IF file.state = "absent" THEN Err("FileNotFoundError")
    ELSE Err("UnpicklingError")

\* The external classifier, as a stub: the probability (in percent) it gives
\* the class True for a feature row.
StubScore(row) ==
    IF row[4].num = 0 THEN 5
    ELSE IF row[3].num = 0 THEN 20
    ELSE 60 + 5 * row[5]

\* model.predict_proba(row)[0]: one probability per class the model knows.
predict_proba(model, row) ==
    [i \in 1..Len(model.classes) |->
        IF Len(model.classes) = 1 THEN 100
        ELSE IF model.classes[i] THEN StubScore(row) ELSE 100 - StubScore(row)]

\* predict_proba(features_array)[0][1]
positive_probability_first(model, row) ==
    IF Len(predict_proba(model, row)) < 1 THEN Err("IndexError")
    ELSE OK(predict_proba(model, row)[1])

positive_probability(model, row) ==
    IF Len(predict_proba(model, row)) < 2 THEN Err("IndexError")
    ELSE OK(predict_proba(model, row)[2])

\* The body of predict_match's try block.
predict_match_try(model_file, package_json, carrier_json) ==
    Then(json_loads(package_json), LAMBDA package :
    Then(json_loads(carrier_json), LAMBDA carrier :
    Then(joblib_load(model_file), LAMBDA model :
    Then(extract_features(package, carrier), LAMBDA features :
    Then(positive_probability(model, features), LAMBDA match_score :
    Then(calculate_compensation(package, carrier), LAMBDA compensation :
    Then(calculate_route_deviation(carrier.routeCoordinates,
             package.pickupCoordinates, package.deliveryCoordinates),
         LAMBDA route_deviation :
    IF "id" \notin DOMAIN carrier THEN Err("KeyError")
    ELSE IF "id" \notin DOMAIN package THEN Err("KeyError")
    ELSE OK([carrierId |-> carrier.id,
             packageId |-> package.id,
             matchScore |-> match_score,
             compensation |-> compensation,
             routeDeviation |-> route_deviation]))))))))

\* A handler that catches only the lookup and value errors.
Caught_narrow(outcome) ==
    IF outcome.ok THEN outcome.val
    ELSE IF outcome.err \in {"KeyError", "ValueError"} THEN [error |-> outcome.err]
    ELSE [uncaught |-> outcome.err]

\* except Exception as e: return json.dumps({'error': str(e)})
Caught(outcome) == IF outcome.ok THEN outcome.val ELSE [error |-> outcome.err]

\* the rows of an outcome, none when it is a failure
RowsOf(outcome) == IF outcome.ok THEN outcome.val ELSE <<>>

\* the model an outcome wrote, otherwise the one that was there
WrittenOr(outcome, model_before) ==
    IF outcome.ok THEN outcome.val.written ELSE model_before

predict_match(model_file, package_json, carrier_json) ==
    Caught(predict_match_try(model_file, package_json, carrier_json))

\* The rows predict_match hands to the classifier: one row, once the inputs
\* are parsed, the model is loaded and the features are extracted.
predict_rows(model_file, package_json, carrier_json) ==
    RowsOf(Then(json_loads(package_json), LAMBDA package :
           Then(json_loads(carrier_json), LAMBDA carrier :
           Then(joblib_load(model_file), LAMBDA model :
           Then(extract_features(package, carrier), LAMBDA features :
           OK(<<features>>))))))

\* for match in training_data: the rows X so far, or the first failure.
RECURSIVE training_rows(_)
training_rows(training_data) ==
    IF training_data = <<>> THEN OK(<<>>)
    ELSE LET match == training_data[Len(training_data)]
         IN Then(training_rows(SubSeq(training_data, 1, Len(training_data) - 1)),
                 LAMBDA X :
            IF ~({"package", "carrier"} \subseteq DOMAIN match) THEN Err("KeyError")
            ELSE Then(extract_features(match.package, match.carrier), LAMBDA features :
                 IF "success" \notin DOMAIN match THEN Err("KeyError")
                 ELSE OK(Append(X, features))))

\* The sorted distinct labels y of the training data.
classes_of(training_data) ==
    LET y == {training_data[i].success : i \in 1..Len(training_data)}
    IN IF y = {FALSE, TRUE} THEN <<FALSE, TRUE>>
       ELSE IF y = {TRUE} THEN <<TRUE>>
       ELSE <<FALSE>>

\* model.fit(X, y): the scaler rejects an empty X.
fit(training_data, X) ==
    IF X = <<>> THEN Err("ValueError") ELSE OK(FittedModel(classes_of(training_data)))

\* The body of train_model's try block: the result and the model written.
train_model_try(training_file, disk_writable) ==
    IF training_file.state = "absent" THEN Err("FileNotFoundError")
    ELSE Then(json_loads(training_file.text), LAMBDA training_data :
         Then(training_rows(training_data), LAMBDA X :
         Then(fit(training_data, X), LAMBDA model :
         IF ~disk_writable THEN Err("PermissionError")
         ELSE OK([written |-> model,
                  result |-> [success |-> TRUE,
                              message |-> "Model trained successfully"]]))))

train_model(training_file, disk_writable) ==
    Caught(Then(train_model_try(training_file, disk_writable),
                LAMBDA done : OK(done.result)))

\* joblib.dump(model, model_path): what is at model_path after the call.
model_after_training(files_now) ==
    WrittenOr(train_model_try(files_now.training, files_now.writable), files_now.model)

\* The rows train_model hands to fit.
training_fit_rows(training_file) ==
    IF training_file.state = "absent" THEN <<>>
    ELSE RowsOf(Then(json_loads(training_file.text), LAMBDA training_data :
                training_rows(training_data)))

\* ------------------------------------------------- the end-to-end inputs

MaxExamples == 2

T0900 == FormatTime(FirstHour * 60)

T0930 == FormatTime(FirstHour * 60 + 30)

T1000 == FormatTime(FirstHour * 60 + 60)

T1030 == FormatTime(FirstHour * 60 + 90)

\* a text int() rejects
BadTime == <<"9", "x", ":", "0", "0">>

BasePackage ==
    [id |-> "P1", pickupCoordinates |-> <<0, 0>>, deliveryCoordinates |-> <<1, 0>>,
     pickupWindow |-> <<T0900, T1000>>, deliveryWindow |-> <<T0930, T1030>>,
     dimensions |-> SmallBox(10013), urgency |-> "high"]

BaseCarrier == CarrierWith(<<<<0, 0>>, <<1, 0>>>>, DayShift, Van, HistoryKeys)

\* a package and a vehicle of length 0
FlatBox == [length |-> 0, width |-> 1, height |-> 1, weight |-> 10013]

FlatVan == [length |-> 0, width |-> 2, height |-> 2, weightLimit |-> 100000]

\* the JSON text {}
EmptyObject == <<>>

\* d without the key k
Without(d, k) == [x \in DOMAIN d \ {k} |-> d[x]]

PackagesWithAllFields ==
    {[BasePackage EXCEPT !.pickupCoordinates = p, !.pickupWindow = pw,
                         !.dimensions = SmallBox(w), !.urgency = u] :
         p \in {<<0, 0>>, <<1, 1>>},
         pw \in {<<T0900, T1000>>, <<T0930, T0930>>, <<BadTime, T1000>>},
         w \in CompWeights,
         u \in {"high", "medium"}}

PackageObjects ==
    PackagesWithAllFields
    \cup {Without(pk, "urgency") : pk \in PackagesWithAllFields}
    \cup {Without(BasePackage, k) : k \in DOMAIN BasePackage}
    \cup {[BasePackage EXCEPT !.deliveryWindow = <<T1000, T1000>>],
          [BasePackage EXCEPT !.dimensions = Without(SmallBox(10013), "weight")],
          [BasePackage EXCEPT !.dimensions = FlatBox],
          EmptyObject}

CarrierObjects ==
    {CarrierWith(r, DayShift, Van, present) :
         r \in {<<>>, <<<<0, 0>>, <<1, 0>>>>, <<<<1, 1>>>>},
         present \in {{}, HistoryKeys}}
    \cup {Without(BaseCarrier, k) : k \in DOMAIN BaseCarrier \ HistoryKeys}
    \cup {CarrierWith(<<<<0, 0>>, <<1, 0>>>>, DayShift, FlatVan, {}), EmptyObject}

PackageTexts == {Malformed} \cup {JsonText(pk) : pk \in PackageObjects}

CarrierTexts == {Malformed} \cup {JsonText(c) : c \in CarrierObjects}

\* Historical matches: two good ones with the two outcomes, one whose carrier
\* has an empty route, one without its outcome.
Examples ==
    {[package |-> BasePackage, carrier |-> BaseCarrier, success |-> TRUE],
     [package |-> [BasePackage EXCEPT !.pickupCoordinates = <<1, 1>>],
      carrier |-> CarrierWith(<<<<0, 1>>>>, LateShift, Van, {}), success |-> FALSE],
     [package |-> BasePackage,
      carrier |-> CarrierWith(<<>>, DayShift, Van, {}), success |-> TRUE],
     [package |-> BasePackage, carrier |-> BaseCarrier]}

TrainingFiles ==
    {[state |-> "absent"], [state |-> "present", text |-> Malformed]}
    \cup {[state |-> "present", text |-> JsonText(data)] :
             data \in UNION {[1..n -> Examples] : n \in 0..MaxExamples}}

Init ==
    /\ pc = "start"
    /\ args = [command |-> "none"]
    /\ ret = NoRet
    /\ files \in [model : {AbsentModel, CorruptModel}, training : TrainingFiles,
                  writable : BOOLEAN]
    /\ clfInput = NoRows

\* train <training_data_path> <model_path>
TrainModel ==
    /\ pc = "start"
    /\ pc' = "trained"
    /\ args' = [command |-> "train"]
    /\ ret' = train_model(files.training, files.writable)
    /\ files' = [files EXCEPT !.model = model_after_training(files)]
    /\ clfInput' = training_fit_rows(files.training)

\* predict <model_path> <package_json> <carrier_json>
PredictMatch ==
    /\ pc \in {"start", "trained"}
    /\ \E package_json \in PackageTexts, carrier_json \in CarrierTexts :
           /\ args' = [command |-> "predict", package_json |-> package_json,
                       carrier_json |-> carrier_json]
           /\ ret' = predict_match(files.model, package_json, carrier_json)
           /\ clfInput' = predict_rows(files.model, package_json, carrier_json)
    /\ pc' = "predicted"
    /\ UNCHANGED files

Next == TrainModel \/ PredictMatch

Spec == Init /\ [][Next]_vars


\* What the inputs of the last predict call are, read off the inputs alone.

ResultFields == {"carrierId", "packageId", "matchScore", "compensation", "routeDeviation"}

PackageKeys ==
    {"id", "pickupCoordinates", "deliveryCoordinates", "pickupWindow",
     "deliveryWindow", "dimensions"}

CarrierKeys == {"id", "routeCoordinates", "schedule", "vehicleCapacity"}

IsWindow(w) == w[1] \in Times /\ w[2] \in Times

PackageUsable(package) ==
    /\ PackageKeys \subseteq DOMAIN package
    /\ DimensionKeys \subseteq DOMAIN package.dimensions
    /\ IsWindow(package.pickupWindow) /\ IsWindow(package.deliveryWindow)

CarrierUsable(carrier) ==
    /\ CarrierKeys \subseteq DOMAIN carrier
    /\ Len(carrier.routeCoordinates) > 0

ModelUsable == files.model.state = "fitted" /\ Len(files.model.classes) = 2

\* The size ratios are defined: not (the package fits while the vehicle's
\* volume or weightLimit is 0).
SizeComputable(package, carrier) ==
    LET v == carrier.vehicleCapacity
        d == package.dimensions
    IN (/\ d.length <= v.length /\ d.width <= v.width
        /\ d.height <= v.height /\ d.weight <= v.weightLimit)
           => (v.length * v.width * v.height # 0 /\ v.weightLimit # 0)

PredictInputsUsable ==
    /\ args.package_json.wellformed /\ PackageUsable(args.package_json.value)
    /\ args.carrier_json.wellformed /\ CarrierUsable(args.carrier_json.value)
    /\ SizeComputable(args.package_json.value, args.carrier_json.value)

ExampleUsable(match) ==
    /\ {"package", "carrier", "success"} \subseteq DOMAIN match
    /\ PackageUsable(match.package) /\ CarrierUsable(match.carrier)
    /\ SizeComputable(match.package, match.carrier)

TrainingUsable ==
    /\ files.training.state = "present"
    /\ files.training.text.wellformed
    /\ Len(files.training.text.value) > 0
    /\ \A i \in 1..Len(files.training.text.value) :
           ExampleUsable(files.training.text.value[i])

Predicted == pc = "predicted"

Trained == pc = "trained"

IsError(r) == DOMAIN r = {"error"}

IsMatchResult(r) == DOMAIN r = ResultFields

\* C1: predict_match and train_model never let a failure escape: malformed
\* JSON, a missing required field, an empty route, a model-load or
\* training-data-load failure, a fit or persist failure all give {error:
\* message}; the five-field MatchResult is returned only when every step
\* succeeded, {success: true, message} only when fitting and persisting both
\* succeeded.
C1_NoFailureEscapes ==
    /\ Predicted =>
           /\ IsError(ret) \/ IsMatchResult(ret)
           /\ IsMatchResult(ret) <=> (PredictInputsUsable /\ ModelUsable)
    /\ Trained =>
           /\ IsError(ret) \/ ret = [success |-> TRUE,
                                     message |-> "Model trained successfully"]
           /\ ~IsError(ret) <=> (TrainingUsable /\ files.writable)
           /\ ~IsError(ret) => files.model.state = "fitted"
           /\ IsError(ret) => files.model \in {AbsentModel, CorruptModel}

\* C1 witness: after a successful training on both outcomes, a prediction
\* for a carrier with an empty route is an error result.
C1_Witness ==
    /\ Predicted
    /\ ModelUsable
    /\ args.package_json.wellformed /\ PackageUsable(args.package_json.value)
    /\ args.carrier_json.wellformed
    /\ CarrierKeys \subseteq DOMAIN args.carrier_json.value
    /\ args.carrier_json.value.routeCoordinates = <<>>
    /\ IsError(ret)

\* C1, the other failures: each is reached and is an error result.
C1_TrainPersistFails ==
    Trained /\ TrainingUsable /\ ~files.writable /\ ret = [error |-> "PermissionError"]

C1_TrainFitFails ==
    /\ Trained
    /\ files.training.state = "present" /\ files.training.text.wellformed
    /\ files.training.text.value = <<>>
    /\ IsError(ret)

C1_ZeroCapacityVehicle ==
    /\ Predicted
    /\ ModelUsable
    /\ ret = [error |-> "ZeroDivisionError"]

C1_ModelNotLoadable ==
    /\ Predicted
    /\ PredictInputsUsable
    /\ files.model = CorruptModel
    /\ ret = [error |-> "UnpicklingError"]

C1_SingleClassModel ==
    /\ Predicted
    /\ PredictInputsUsable
    /\ files.model.state = "fitted" /\ Len(files.model.classes) = 1
    /\ ret = [error |-> "IndexError"]

ZeroDuration(w) == IsWindow(w) /\ w[1] = w[2]

HasZeroDurationWindow ==
    /\ args.package_json.wellformed
    /\ {"pickupWindow", "deliveryWindow"} \subseteq DOMAIN args.package_json.value
    /\ IsWindow(args.package_json.value.pickupWindow)
    /\ IsWindow(args.package_json.value.deliveryWindow)
    /\ \/ ZeroDuration(args.package_json.value.pickupWindow)
       \/ ZeroDuration(args.package_json.value.deliveryWindow)

\* C2 as stated: a package window of zero duration is a failure, predict_match
\* returns {error: message} instead of a MatchResult.
C2_AsStated == (Predicted /\ HasZeroDurationWindow) => IsError(ret)

\* C2 amended: a zero-duration window B is not a failure: for start = end the
\* overlap is 0 (oe <= os, the division is not reached), the time
\* compatibility handed to the classifier is 0, the window raises no
\* division by zero (the only one left is the size ratio of a fitting package
\* in a vehicle of zero volume or weightLimit), and predict_match returns a
\* MatchResult whenever its other inputs and the model are usable.
C2_ZeroDurationIsZero ==
    (Predicted /\ HasZeroDurationWindow) =>
        /\ (IsError(ret) /\ ret.error = "ZeroDivisionError") =>
               /\ args.carrier_json.wellformed
               /\ CarrierUsable(args.carrier_json.value)
               /\ PackageUsable(args.package_json.value)
               /\ ~SizeComputable(args.package_json.value, args.carrier_json.value)
        /\ clfInput # <<>> => clfInput[1][3].num = 0
        /\ (PredictInputsUsable /\ ModelUsable) => IsMatchResult(ret)

\* C2 witness: a zero-duration pickup window and a MatchResult.
C2_Witness ==
    /\ Predicted
    /\ args.package_json.wellformed
    /\ PackageUsable(args.package_json.value)
    /\ ZeroDuration(args.package_json.value.pickupWindow)
    /\ IsMatchResult(ret)
    /\ clfInput[1][3].num = 0

RouteContains(carrier, point) ==
    \E i \in 1..Len(carrier.routeCoordinates) : carrier.routeCoordinates[i] = point

C8_DeviationReached ==
    /\ Predicted
    /\ IsMatchResult(ret)
    /\ ret.routeDeviation.distance > 0
    /\ ret.compensation # ExpectedTotal(args.package_json.value, ret.routeDeviation.distance)

=============================================================================
